---- MODULE Spec2Model ----
(***************************************************************************)
(* Voice command pipeline: VoiceCommandProcessor (src/src/processor.py),   *)
(* CommandMapper and CommandAuthorizationManager (src/src/mapper.py) and   *)
(* the engines the processor calls (src/src/nlu.py, src/src/asr.py).       *)
(*                                                                         *)
(* Numbers: a confidence is an integer count of 1/10000, so 0.7 is 7000    *)
(* and round(c, 3) is a real conversion.  Text is a sequence of            *)
(* one-character strings.  A Python dict is a function on its key set; an  *)
(* ordered dict whose order matters (a configuration table) is a sequence  *)
(* of entries.  An Optional argument is <<>> (None) or <<x>>.              *)
(***************************************************************************)
EXTENDS Integers, Sequences, FiniteSets, TLC

VARIABLES
    srcCfg,           \* which configuration the YAML files on disk hold now
    use_mock,         \* VoiceCommandProcessor.use_mock
    intents_config,   \* VoiceCommandProcessor.intents_config
    commands_config,  \* VoiceCommandProcessor.commands_config
    nlu,              \* VoiceCommandProcessor.nlu (engine kind, its intents table)
    mapper,           \* VoiceCommandProcessor.mapper (its commands_config)
    auth,             \* VoiceCommandProcessor.auth_manager (authorized_intents list)
    reloadPc,         \* position of the thread running reload_configurations
    req,              \* the in-flight process_text / process_audio call
    call              \* last direct call of a mapper / authorization method

vars == <<srcCfg, use_mock, intents_config, commands_config, nlu, mapper, auth,
          reloadPc, req, call>>

-----------------------------------------------------------------------------
(* Bounds and program constants *)

\* longest list a CommandAuthorizationManager is constructed from or grows to
MaxAuthLen == 3

\* fixed-point resolution of a confidence: four decimals
Scale == 10 * 10 * 10 * 10

\* is_authorized(..., min_confidence: float = 0.8)
DefaultMinConfidence == 8000

\* MockNLUEngine.classify_intent returns ("test_intent", 0.95)
MockConfidence == 9500

None == <<>>

Some(x) == <<x>>

\* a dict with no keys
EmptyDict == <<>>

-----------------------------------------------------------------------------
(* Python built-ins the code relies on *)

\* round(c, 3): to the closest multiple of 0.001, a tie to the even one
Round3(c) ==
    LET q == c \div 10
        r == c % 10
    IN  IF r < 5 THEN q * 10
        ELSE IF r > 5 THEN (q + 1) * 10
        ELSE IF q % 2 = 0 THEN q * 10 ELSE (q + 1) * 10

Whitespace == {" "}

\* str.strip() of a text
RECURSIVE LStrip(_)
LStrip(t) == IF t # <<>> /\ Head(t) \in Whitespace THEN LStrip(Tail(t)) ELSE t

RECURSIVE RStrip(_)
RStrip(t) ==
    IF t # <<>> /\ t[Len(t)] \in Whitespace THEN RStrip(SubSeq(t, 1, Len(t) - 1)) ELSE t

Strip(t) == RStrip(LStrip(t))

LowerChar(c) ==
    CASE c = "A" -> "a"
      [] c = "M" -> "m"
      [] OTHER -> c

\* str.lower()
Lower(t) == [i \in 1..Len(t) |-> LowerChar(t[i])]

\* set(t.split()): the words of a text, the maximal runs without whitespace
WordSet(t) ==
    LET IsWord(i, j) ==
            /\ i <= j
            /\ \A k \in i..j : t[k] \notin Whitespace
            /\ (i = 1 \/ t[i - 1] \in Whitespace)
            /\ (j = Len(t) \/ t[j + 1] \in Whitespace)
    IN  { SubSeq(t, i, j) : <<i, j>> \in
              { ij \in (1..Len(t)) \X (1..Len(t)) : IsWord(ij[1], ij[2]) } }

\* `k in t` for two strings
IsSubstring(k, t) ==
    \E i \in 0..(Len(t) - Len(k)) : SubSeq(t, i + 1, i + Len(k)) = k

\* x in list
InList(x, list) == \E i \in 1..Len(list) : list[i] = x

\* list.remove(x): drops the first occurrence
ListRemove(list, x) ==
    LET first == CHOOSE i \in 1..Len(list) :
                     list[i] = x /\ \A j \in 1..(i - 1) : list[j] # x
    IN  SubSeq(list, 1, first - 1) \o SubSeq(list, first + 1, Len(list))

\* the characters of a dict key
Spell(key) ==
    CASE key = "act"  -> <<"a", "c", "t">>
      [] key = "Mode" -> <<"M", "o", "d", "e">>
      [] key = "am"   -> <<"a", "m">>
      [] OTHER        -> <<key>>

-----------------------------------------------------------------------------
(* Configuration tables (src/src/config.py) *)

\* a Python float / int / str / None as a tagged value
Float(v) == [t |-> "float", v |-> v]

\* keys of an ordered table, in insertion order: list(table.keys())
Keys(table) == [i \in 1..Len(table) |-> table[i].key]

\* key in table
HasKey(table, key) == \E i \in 1..Len(table) : table[i].key = key

\* table[key]
Lookup(table, key) == table[CHOOSE i \in 1..Len(table) : table[i].key = key]

\* the parsed intents.yaml / commands.yaml pairs the files on disk may hold
Configs ==
    << [intents  |-> << [key |-> "stop", patterns |-> << <<"a", "c", "t">> >>,
                         actions |-> ("act" :> "halt")],
                        [key |-> "go",
                         patterns |-> << <<"a", "m", " ", "a", "c", "t">>,
                                         <<"a", "c", "t", " ", "m", "o", "d", "e">> >>,
                         actions |-> ("Mode" :> "fast" @@ "am" :> "yes")] >>,
        commands |-> << [key |-> "stop", command_type |-> "tracking",
                         parameters |-> ("act" :> "none" @@ "lvl" :> "1"),
                         description |-> "stop tracking"],
                        [key |-> "go", command_type |-> "motion",
                         parameters |-> EmptyDict, description |-> ""] >>],
       [intents  |-> << [key |-> "go",
                         patterns |-> << <<"a", "m", " ", "a", "c", "t">> >>,
                         actions |-> ("act" :> "run")] >>,
        commands |-> << [key |-> "go", command_type |-> "drive",
                         parameters |-> ("act" :> "slow"),
                         description |-> "drive on"] >>] >>

\* load_intents_config(path): the table, tagged with the configuration
\* generation (the state of the files) it was read from
load_intents_config(src) == [gen |-> src, table |-> Configs[src].intents]

\* load_commands_config(path)
load_commands_config(src) == [gen |-> src, table |-> Configs[src].commands]

-----------------------------------------------------------------------------
(* CommandMapper (src/src/mapper.py) *)

\* datetime.utcnow().isoformat(): some instant, its value is not modelled
UtcNow == "utcnow"

_merge_parameters_base_wins(base_params, entity_params) ==
    [k \in DOMAIN base_params \cup DOMAIN entity_params |->
        IF k \in DOMAIN base_params THEN base_params[k] ELSE entity_params[k]]

\* merged = base_params.copy(); merged.update(entity_params)
_merge_parameters(base_params, entity_params) ==
    [k \in DOMAIN base_params \cup DOMAIN entity_params |->
        IF k \in DOMAIN entity_params THEN entity_params[k] ELSE base_params[k]]

\* `x or ""` / `x or {}` for an Optional text or dict: None and the empty
\* value both give the empty value
OrEmpty(opt) == IF Len(opt) = 0 THEN <<>> ELSE opt[1]

_create_error_response_authorized(intent, confidence, textOpt) ==
    [timestamp        |-> UtcNow,
     command_type     |-> "error",
     intent           |-> intent,
     confidence       |-> Float(Round3(confidence)),
     transcribed_text |-> OrEmpty(textOpt),
     parameters       |-> EmptyDict,
     error            |-> "Unknown intent",
     status           |-> "authorized"]

_create_error_response(intent, confidence, textOpt) ==
    [timestamp        |-> UtcNow,
     command_type     |-> "error",
     intent           |-> intent,
     confidence       |-> Float(Round3(confidence)),
     transcribed_text |-> OrEmpty(textOpt),
     parameters       |-> EmptyDict,
     error            |-> "Unknown intent",
     status           |-> "rejected"]

map_intent_to_command(commands, intent, confidence, entitiesOpt, textOpt) ==
    LET entities == OrEmpty(entitiesOpt)
    IN  IF ~HasKey(commands, intent)
        THEN _create_error_response(intent, confidence, textOpt)
        ELSE LET command_mapping == Lookup(commands, intent)
             IN  [timestamp        |-> UtcNow,
                  command_type     |-> command_mapping.command_type,
                  intent           |-> intent,
                  confidence       |-> Float(Round3(confidence)),
                  transcribed_text |-> OrEmpty(textOpt),
                  parameters       |-> _merge_parameters(command_mapping.parameters,
                                                         entities),
                  description      |-> command_mapping.description,
                  status           |-> "authorized"]

\* the update made on the template's own dict
base_params_after_merge_in_place(base_params, entity_params) ==
    _merge_parameters(base_params, entity_params)

\* the template's own parameters dict after _merge_parameters: `merged` is a
\* copy, so merged.update(entity_params) does not reach it
base_params_after_merge(base_params, entity_params) == base_params

\* self.commands_config after map_intent_to_command(intent, _, entities, _)
commands_after_map(commands, intent, entitiesOpt) ==
    [k \in 1..Len(commands) |->
        IF commands[k].key = intent
        THEN [commands[k] EXCEPT
                 !.parameters = base_params_after_merge(@, OrEmpty(entitiesOpt))]
        ELSE commands[k]]

required_fields == <<"command_type", "intent", "confidence", "timestamp">>

\* isinstance(x, (int, float)); bool is a subclass of int
IsIntOrFloat(x) == x.t \in {"int", "float", "bool"}

validate_command_no_upper(command_json) ==
    IF \E i \in 1..Len(required_fields) : required_fields[i] \notin DOMAIN command_json
    THEN FALSE
    ELSE IF ~IsIntOrFloat(command_json.confidence)
    THEN FALSE
    ELSE 0 <= command_json.confidence.v

validate_command(command_json) ==
    IF \E i \in 1..Len(required_fields) : required_fields[i] \notin DOMAIN command_json
    THEN FALSE
    ELSE IF ~IsIntOrFloat(command_json.confidence)
    THEN FALSE
    ELSE IF ~(0 <= command_json.confidence.v /\ command_json.confidence.v <= Scale)
    THEN FALSE
    ELSE TRUE

-----------------------------------------------------------------------------
(* CommandAuthorizationManager (src/src/mapper.py) *)

\* self.authorized_intents = authorized_intents or []
NewAuthorizationManager(listOpt) == OrEmpty(listOpt)

is_authorized_any(authorized_intents, intent, confidence, minOpt) ==
    LET min_confidence == IF Len(minOpt) = 0 THEN DefaultMinConfidence ELSE minOpt[1]
    IN  InList(intent, authorized_intents) \/ confidence >= min_confidence

is_authorized_strict(authorized_intents, intent, confidence, minOpt) ==
    LET min_confidence == IF Len(minOpt) = 0 THEN DefaultMinConfidence ELSE minOpt[1]
    IN  InList(intent, authorized_intents) /\ confidence > min_confidence

is_authorized(authorized_intents, intent, confidence, minOpt) ==
    LET min_confidence == IF Len(minOpt) = 0 THEN DefaultMinConfidence ELSE minOpt[1]
    IN  InList(intent, authorized_intents) /\ confidence >= min_confidence

add_authorized_intent(authorized_intents, intent) ==
    IF ~InList(intent, authorized_intents)
    THEN Append(authorized_intents, intent)
    ELSE authorized_intents

remove_authorized_intent(authorized_intents, intent) ==
    IF InList(intent, authorized_intents)
    THEN ListRemove(authorized_intents, intent)
    ELSE authorized_intents

\* a list object handed to a caller: `live` tells whether it is the manager's
\* own list (a second reference to it) or a separate object
list_authorized_intents_live(authorized_intents) ==
    [live |-> TRUE, items |-> authorized_intents]

\* return self.authorized_intents.copy()
list_authorized_intents(authorized_intents) ==
    [live |-> FALSE, items |-> authorized_intents]

-----------------------------------------------------------------------------
(* Engines (src/src/nlu.py, src/src/asr.py) *)

\* NLUEngine(config, intents_config) / MockNLUEngine(config, intents_config)
NewNLU(kind, config) == [kind |-> kind, intents |-> config.table, gen |-> config.gen]

\* CommandMapper(commands_config)
NewMapper(config) == [commands |-> config.table, gen |-> config.gen]

\* CommandAuthorizationManager(): no list given
NewAuthNoList(config) ==
    [authorized_intents |-> NewAuthorizationManager(None), gen |-> config.gen]

\* CommandAuthorizationManager(list(commands_config.keys()))
NewAuth(config) ==
    [authorized_intents |-> NewAuthorizationManager(Some(Keys(config.table))),
     gen |-> config.gen]

RECURSIVE ExtractFrom(_, _, _)
ExtractFrom(intents, n, text_lower) ==
    IF n = 0 THEN EmptyDict
    ELSE LET before  == ExtractFrom(intents, n - 1, text_lower)
             actions == intents[n].actions
             hit     == {k \in DOMAIN actions : IsSubstring(Spell(k), text_lower)}
         IN  [k \in DOMAIN before \cup hit |->
                 IF k \in hit THEN actions[k] ELSE before[k]]

\* NLUEngine.extract_entities / MockNLUEngine.extract_entities
extract_entities(engine, text) ==
    IF engine.kind = "mock" THEN EmptyDict
    ELSE ExtractFrom(engine.intents, Len(engine.intents), Lower(text))

-----------------------------------------------------------------------------
(* NLUEngine: the intent index and classify_intent (src/src/nlu.py) *)

\* NLUConfig.confidence_threshold: float = 0.7
ConfidenceThreshold == 7000

Max(a, b) == IF a >= b THEN a ELSE b

Min(a, b) == IF a <= b THEN a ELSE b

\* TfidfVectorizer(lowercase=True, stop_words='english'): of the words used
\* here, "a" and "am" are English stop words
StopWords == { <<"a">>, <<"a", "m">> }

\* the terms the vectorizer keeps of a text: its lower-cased words of two or
\* more characters that are no stop words
Tokens(t) == {w \in WordSet(Lower(t)) : Len(w) >= 2 /\ w \notin StopWords}

\* all_patterns with pattern_to_intent: every pattern of every intent with
\* the intent that owns it, in configuration order
RECURSIVE AllPatterns(_, _)
AllPatterns(intents, n) ==
    IF n = 0 THEN <<>>
    ELSE AllPatterns(intents, n - 1)
         \o [k \in 1..Len(intents[n].patterns) |->
                [intent |-> intents[n].key, pattern |-> intents[n].patterns[k]]]

\* the vocabulary self.vectorizer.fit(all_patterns) learns
Vocabulary(patterns) == UNION {Tokens(patterns[k].pattern) : k \in 1..Len(patterns)}

\* similarities of a text and a pattern that share some terms but not all:
\* below and above the default threshold
PartialScores == {5000, 7004}

\* similarities of a text and a pattern with the same two or more terms: 1.0,
\* or the double just above 1.0 that the normalised dot product rounds to
FullScores == {Scale, Scale + 1}

\* what the fitted weights make of the similarities: one value for each
\* pattern that a text meets in part, one for a full match
Weights(intents) ==
    LET all_patterns == AllPatterns(intents, Len(intents))
        several == \E k \in 1..Len(all_patterns) :
                       Cardinality(Tokens(all_patterns[k].pattern)) > 1
    IN  {[partial |-> f, full |-> g] :
            f \in [1..Len(all_patterns) -> PartialScores],
            g \in IF several THEN FullScores ELSE {Scale}}

\* _build_intent_index, on the engine NLUEngine.__init__ has set up with
\* self.config and self.intents_config.  fit() raises ValueError on an empty
\* vocabulary, and pattern_vectors then stays empty.
_build_intent_index(engine, confidence_threshold, weights) ==
    LET all_patterns == AllPatterns(engine.intents, Len(engine.intents))
    IN  [kind              |-> engine.kind,
         intents           |-> engine.intents,
         gen               |-> engine.gen,
         threshold         |-> confidence_threshold,
         intent_candidates |-> Keys(engine.intents),
         all_patterns      |-> all_patterns,
         vocabulary        |-> Vocabulary(all_patterns),
         pattern_vectors   |-> IF Vocabulary(all_patterns) # {}
                               THEN 1..Len(all_patterns) ELSE {},
         weights           |-> weights]

\* cosine_similarity([input_vec], [pattern_vec])[0][0] for pattern k: 0 when
\* text and pattern share no term of the vocabulary, the weights' value
\* otherwise; one shared term alone gives exactly 1.0
cosine_similarity(engine, text, k) ==
    LET text_terms    == Tokens(text) \cap engine.vocabulary
        pattern_terms == Tokens(engine.all_patterns[k].pattern)
    IN  IF text_terms \cap pattern_terms = {} THEN 0
        ELSE IF text_terms = pattern_terms
        THEN (IF Cardinality(pattern_terms) = 1 THEN Scale ELSE engine.weights.full)
        ELSE engine.weights.partial[k]

\* the same loop with `>=`: the last of several equal scores wins
RECURSIVE BestMatchLast(_, _, _)
BestMatchLast(patterns, scores, n) ==
    IF n = 0 THEN [intent |-> "unknown", score |-> 0]
    ELSE LET best == BestMatchLast(patterns, scores, n - 1)
         IN  IF scores[n] >= best.score /\ scores[n] > 0
             THEN [intent |-> patterns[n].intent, score |-> scores[n]]
             ELSE best

\* best_intent = "unknown"; best_score = 0.0; for ...: if score > best_score
RECURSIVE BestMatch(_, _, _)
BestMatch(patterns, scores, n) ==
    IF n = 0 THEN [intent |-> "unknown", score |-> 0]
    ELSE LET best == BestMatch(patterns, scores, n - 1)
         IN  IF scores[n] > best.score
             THEN [intent |-> patterns[n].intent, score |-> scores[n]]
             ELSE best

\* a call that raised
Raised == [raised |-> TRUE, intent |-> "", confidence |-> 0]

\* return "unknown", 0.0
UnknownZero == [raised |-> FALSE, intent |-> "unknown", confidence |-> 0]

\* the word-overlap score of text and pattern: overlap / max(len(pattern_words), 1)
OverlapScore(text, pattern) ==
    LET text_words    == WordSet(Lower(text))
        pattern_words == WordSet(Lower(pattern))
    IN  (Cardinality(text_words \cap pattern_words) * Scale)
            \div Max(Cardinality(pattern_words), 1)

\* NLUEngine._keyword_match(text); text.lower() raises on a value that is no str
_keyword_match(engine, input) ==
    IF input.kind # "text" THEN Raised
    ELSE LET scores == [k \in 1..Len(engine.all_patterns) |->
                           OverlapScore(input.text, engine.all_patterns[k].pattern)]
             best   == BestMatch(engine.all_patterns, scores, Len(engine.all_patterns))
         IN  [raised |-> FALSE, intent |-> best.intent,
              confidence |-> Min(best.score, Scale)]

\* if confidence < self.config.confidence_threshold: return "unknown", confidence
ThresholdCheck(engine, r) ==
    IF r.confidence < engine.threshold THEN [r EXCEPT !.intent = "unknown"] ELSE r

\* the try block of classify_intent.  `vec` is what the vectorizer does in
\* this call: it works, its transform raises, or the similarity raises.
classify_intent_try(engine, input, use_similarity, vec) ==
    IF use_similarity /\ engine.pattern_vectors # {}
    THEN IF input.kind # "text" \/ vec = "transform_raises"
         THEN _keyword_match(engine, input)     \* returned as it is
         ELSE IF vec = "cosine_raises"
         THEN Raised
         ELSE LET scores == [k \in 1..Len(engine.all_patterns) |->
                                cosine_similarity(engine, input.text, k)]
                  best   == BestMatch(engine.all_patterns, scores,
                                      Len(engine.all_patterns))
              IN  ThresholdCheck(engine, [raised |-> FALSE, intent |-> best.intent,
                                          confidence |-> best.score])
    ELSE LET r == _keyword_match(engine, input)
         IN  IF r.raised THEN r ELSE ThresholdCheck(engine, r)

\* classify_intent with no `except Exception` around the scoring
classify_intent_unguarded(engine, input, use_similarity, vec) ==
    IF engine.intent_candidates = <<>>
    THEN UnknownZero
    ELSE classify_intent_try(engine, input, use_similarity, vec)

\* NLUEngine.classify_intent(text, use_similarity)
classify_intent(engine, input, use_similarity, vec) ==
    IF engine.intent_candidates = <<>>
    THEN UnknownZero
    ELSE LET r == classify_intent_try(engine, input, use_similarity, vec)
         IN  IF r.raised THEN UnknownZero ELSE r

\* texts a caller passes to process_text and a transcription returns
Texts == { <<>>, <<"a", "c", "t">>, <<"A", "m">> }

\* MockASREngine.transcribe returns "mock transcription"
MockTranscription == <<"m", "o", "c", "k">>

\* confidences a classification returns: below and above 0.7, above 1
ConfValues == {6996, 7004, 15000}

\* min_confidence arguments of process_text / process_audio
MinConfs == {0, 7000}

\* What self.asr.transcribe(audio_input, language) may do.  The mock returns
\* its fixed text.  The real engine hands back what the recogniser returned:
\* it raises, returns "" (speech not understood), a blank or a non-blank
\* text, or (kind "nontext") a value that is no str.
TranscribeOutcomes(mock) ==
    IF mock
    THEN {[kind |-> "text", text |-> MockTranscription]}
    ELSE {[kind |-> "raise", text |-> <<>>], [kind |-> "nontext", text |-> <<>>],
          [kind |-> "text", text |-> <<" ">>]}
         \cup {[kind |-> "text", text |-> t] : t \in Texts}

\* What self.nlu.classify_intent(text) may do.  The mock returns
\* ("test_intent", 0.95).  For the real engine the orchestrator is modelled
\* against every outcome its try block provides for: an exception, or a pair
\* (intent, confidence) with the intent a configured one or "unknown".
ClassifyOutcomes(engine) ==
    IF engine.kind = "mock"
    THEN {[raised |-> FALSE, intent |-> "test_intent", confidence |-> MockConfidence]}
    ELSE {[raised |-> TRUE, intent |-> "unknown", confidence |-> 0]}
         \cup {[raised |-> FALSE, intent |-> i, confidence |-> c] :
                  i \in {engine.intents[k].key : k \in 1..Len(engine.intents)}
                        \cup {"unknown"},
                  c \in ConfValues}

-----------------------------------------------------------------------------
(* VoiceCommandProcessor (src/src/processor.py): one request *)

\* intents add_authorized_intent / remove_authorized_intent are called with
AuthIntents == {"go", "test_intent"}

NoGens == [classify |-> -1, extract |-> -1, authorize |-> -1, map |-> -1]

\* no request has been made yet
IdleReq ==
    [kind |-> "none", pc |-> "idle", text |-> <<>>, minc |-> 0,
     intent |-> "", conf |-> 0, entities |-> EmptyDict,
     command |-> None, result |-> None, escaped |-> "",
     stages |-> <<>>, gens |-> NoGens, authSeen |-> None, fault |-> "",
     heard |-> "", extractFailed |-> FALSE]

\* the call returns `result`
Return(r, result) == [r EXCEPT !.pc = "done", !.result = Some(result)]

\* an exception leaves the call
Escape(r, exc) == [r EXCEPT !.pc = "done", !.escaped = exc]

\* a stage starts: `stages` and `gens` record which stages ran and the
\* configuration generation of the component each one read; `authSeen` records
\* whether the intent was in the authorized list when the authorization ran
\* and `fault` the stage whose collaborator failed (Failed, set by the actions);
\* `heard` is what the transcription did and `extractFailed` whether
\* extract_entities raised
Enter(r, stage) == [r EXCEPT !.stages = Append(@, stage)]

\* step 1 without the blank check
process_audio_transcribe_no_blank_check(r, out) ==
    LET r1 == Enter(r, "transcribe")
    IN  IF out.kind = "raise"
        THEN Return(r1, [status |-> "error", error |-> "Speech recognition failed",
                         stage |-> "asr"])
        ELSE IF out.kind = "nontext"
        THEN Escape(r1, "AttributeError")
        ELSE [r1 EXCEPT !.text = out.text, !.pc = "classify"]

\* process_audio, step 1: transcribe, then the blank check
process_audio_transcribe(r, out) ==
    LET r1 == Enter(r, "transcribe")
    IN  IF out.kind = "raise"
        THEN Return(r1, [status |-> "error", error |-> "Speech recognition failed",
                         stage |-> "asr"])
        ELSE IF out.kind = "nontext"
        THEN Escape(r1, "AttributeError")   \* transcribed_text.strip(), outside the try
        ELSE IF Strip(out.text) = <<>>
        THEN Return([r1 EXCEPT !.text = out.text],
                    [status |-> "error", error |-> "No speech detected",
                     stage |-> "asr"])
        ELSE [r1 EXCEPT !.text = out.text, !.pc = "classify"]

\* process_audio, step 2
process_audio_classify(r, out, gen) ==
    LET r1 == [Enter(r, "classify") EXCEPT !.gens.classify = gen]
    IN  IF out.raised
        THEN Return(r1, [status |-> "error", error |-> "Intent classification failed",
                         stage |-> "nlu", transcribed_text |-> r.text])
        ELSE [r1 EXCEPT !.intent = out.intent, !.conf = out.confidence,
                        !.pc = "extract"]

\* process_text: classification
process_text_classify(r, out, gen) ==
    LET r1 == [Enter(r, "classify") EXCEPT !.gens.classify = gen]
    IN  IF out.raised
        THEN Return(r1, [status |-> "error", error |-> "Intent classification failed",
                         stage |-> "nlu"])
        ELSE [r1 EXCEPT !.intent = out.intent, !.conf = out.confidence,
                        !.pc = "extract"]

\* entity extraction whose exception ends the request
process_extract_fatal(r, raised, engine) ==
    LET r1 == [Enter(r, "extract") EXCEPT !.gens.extract = engine.gen]
    IN  IF raised
        THEN Return(r1, [status |-> "error", error |-> "Entity extraction failed",
                         stage |-> "nlu"])
        ELSE [r1 EXCEPT !.entities = extract_entities(engine, r.text),
                        !.pc = "authorize"]

\* process_audio step 3 and process_text: entity extraction, {} when it raises
process_extract(r, raised, engine) ==
    [Enter(r, "extract") EXCEPT
        !.gens.extract = engine.gen,
        !.entities = IF raised THEN EmptyDict ELSE extract_entities(engine, r.text),
        !.pc = "authorize"]

\* step 4 without the return: a refused request goes on to the mapping
process_audio_authorize_no_return(r, manager) ==
    [Enter(r, "authorize") EXCEPT
        !.gens.authorize = manager.gen,
        !.authSeen = Some(InList(r.intent, manager.authorized_intents)),
        !.pc = "map"]

\* process_audio, step 4
process_audio_authorize(r, manager) ==
    LET r1 == [Enter(r, "authorize") EXCEPT
                  !.gens.authorize = manager.gen,
                  !.authSeen = Some(InList(r.intent, manager.authorized_intents))]
    IN  IF ~is_authorized(manager.authorized_intents, r.intent, r.conf, Some(r.minc))
        THEN Return(r1, [status |-> "rejected", reason |-> "Authorization failed",
                         intent |-> r.intent, confidence |-> Round3(r.conf),
                         transcribed_text |-> r.text, stage |-> "authorization"])
        ELSE [r1 EXCEPT !.pc = "map"]

\* process_text: authorization
process_text_authorize(r, manager) ==
    LET r1 == [Enter(r, "authorize") EXCEPT
                  !.gens.authorize = manager.gen,
                  !.authSeen = Some(InList(r.intent, manager.authorized_intents))]
    IN  IF ~is_authorized(manager.authorized_intents, r.intent, r.conf, Some(r.minc))
        THEN Return(r1, [status |-> "rejected", reason |-> "Authorization failed",
                         intent |-> r.intent, confidence |-> Round3(r.conf),
                         transcribed_text |-> r.text])
        ELSE [r1 EXCEPT !.pc = "map"]

\* process_audio, step 5
process_audio_map(r, raised, m) ==
    LET r1 == [Enter(r, "map") EXCEPT !.gens.map = m.gen]
    IN  IF raised
        THEN Return(r1, [status |-> "error", error |-> "Command mapping failed",
                         stage |-> "mapper", transcribed_text |-> r.text])
        ELSE [r1 EXCEPT
                 !.command = Some(map_intent_to_command(m.commands, r.intent, r.conf,
                                                        Some(r.entities), Some(r.text))),
                 !.pc = "validate"]

process_text_map_ignores_failure(r, raised, m) ==
    [Enter(r, "map") EXCEPT
        !.gens.map = m.gen,
        !.command = Some(map_intent_to_command(m.commands, r.intent, r.conf,
                                               Some(r.entities), Some(r.text))),
        !.pc = "validate"]

\* process_text: command generation
process_text_map(r, raised, m) ==
    LET r1 == [Enter(r, "map") EXCEPT !.gens.map = m.gen]
    IN  IF raised
        THEN Return(r1, [status |-> "error", error |-> "Command mapping failed",
                         stage |-> "mapper"])
        ELSE [r1 EXCEPT
                 !.command = Some(map_intent_to_command(m.commands, r.intent, r.conf,
                                                        Some(r.entities), Some(r.text))),
                 !.pc = "validate"]

\* process_audio, step 6, and the success return
process_audio_validate(r) ==
    LET r1 == Enter(r, "validate")
    IN  IF ~validate_command(r.command[1])
        THEN Return(r1, [status |-> "error", error |-> "Command validation failed",
                         stage |-> "validation", command |-> r.command[1]])
        ELSE Return(r1, [status |-> "success", command |-> r.command[1],
                         transcribed_text |-> r.text, intent |-> r.intent,
                         confidence |-> Round3(r.conf)])

\* the success return with the confidence as the classifier gave it
process_text_validate_unrounded(r) ==
    LET r1 == Enter(r, "validate")
    IN  IF ~validate_command(r.command[1])
        THEN Return(r1, [status |-> "error", error |-> "Command validation failed",
                         stage |-> "validation"])
        ELSE Return(r1, [status |-> "success", command |-> r.command[1],
                         transcribed_text |-> r.text, intent |-> r.intent,
                         confidence |-> r.conf])

\* process_text: validation, and the success return
process_text_validate(r) ==
    LET r1 == Enter(r, "validate")
    IN  IF ~validate_command(r.command[1])
        THEN Return(r1, [status |-> "error", error |-> "Command validation failed",
                         stage |-> "validation"])
        ELSE Return(r1, [status |-> "success", command |-> r.command[1],
                         transcribed_text |-> r.text, intent |-> r.intent,
                         confidence |-> Round3(r.conf)])

-----------------------------------------------------------------------------
(* State after VoiceCommandProcessor.__init__ *)

NoCall == [op |-> "none"]

\* VoiceCommandProcessor(config, use_mock)
Init ==
    /\ srcCfg = 1
    /\ use_mock \in BOOLEAN
    /\ intents_config = load_intents_config(1)
    /\ commands_config = load_commands_config(1)
    /\ nlu = NewNLU(IF use_mock THEN "mock" ELSE "real", load_intents_config(1))
    /\ mapper = NewMapper(load_commands_config(1))
    /\ auth = NewAuth(load_commands_config(1))
    /\ reloadPc = "idle"
    /\ req = IdleReq
    /\ call = NoCall

-----------------------------------------------------------------------------
(* Requests.  A request thread runs its stages in order; between two stages *)
(* another thread (a reload, an add or a remove) may run.                   *)

Shared == <<srcCfg, use_mock, intents_config, commands_config, nlu, mapper, auth,
            reloadPc, call>>

\* the collaborator of `stage` raised, or validation returned false
Failed(r, failed, stage) == IF failed THEN [r EXCEPT !.fault = stage] ELSE r

\* a caller invokes process_text(text, min_confidence)
StartText ==
    /\ req.pc \in {"idle", "done"}
    /\ \E text \in Texts, m \in MinConfs :
          req' = [IdleReq EXCEPT !.kind = "text", !.pc = "classify",
                                 !.text = text, !.minc = m]
    /\ UNCHANGED Shared

\* a caller invokes process_audio(audio_input, language, min_confidence)
StartAudio ==
    /\ req.pc \in {"idle", "done"}
    /\ \E m \in MinConfs :
          req' = [IdleReq EXCEPT !.kind = "audio", !.pc = "transcribe", !.minc = m]
    /\ UNCHANGED Shared

AudioTranscribe ==
    /\ req.kind = "audio" /\ req.pc = "transcribe"
    /\ \E out \in TranscribeOutcomes(use_mock) :
          req' = [Failed(process_audio_transcribe(req, out), out.kind = "raise",
                         "transcribe") EXCEPT !.heard = out.kind]
    /\ UNCHANGED Shared

AudioClassify ==
    /\ req.kind = "audio" /\ req.pc = "classify"
    /\ \E out \in ClassifyOutcomes(nlu) :
          req' = Failed(process_audio_classify(req, out, nlu.gen), out.raised, "classify")
    /\ UNCHANGED Shared

TextClassify ==
    /\ req.kind = "text" /\ req.pc = "classify"
    /\ \E out \in ClassifyOutcomes(nlu) :
          req' = Failed(process_text_classify(req, out, nlu.gen), out.raised, "classify")
    /\ UNCHANGED Shared

\* the mock's extract_entities cannot raise
Extract ==
    /\ req.pc = "extract"
    /\ \E raised \in (IF nlu.kind = "mock" THEN {FALSE} ELSE BOOLEAN) :
          req' = [process_extract(req, raised, nlu) EXCEPT !.extractFailed = raised]
    /\ UNCHANGED Shared

AudioAuthorize ==
    /\ req.kind = "audio" /\ req.pc = "authorize"
    /\ req' = process_audio_authorize(req, auth)
    /\ UNCHANGED Shared

TextAuthorize ==
    /\ req.kind = "text" /\ req.pc = "authorize"
    /\ req' = process_text_authorize(req, auth)
    /\ UNCHANGED Shared

\* the shared state the mapping does not touch
SharedButMapper == <<srcCfg, use_mock, intents_config, commands_config, nlu, auth,
                     reloadPc, call>>

AudioMap ==
    /\ req.kind = "audio" /\ req.pc = "map"
    /\ \E raised \in BOOLEAN :
          /\ req' = Failed(process_audio_map(req, raised, mapper), raised, "map")
          /\ mapper' = IF raised THEN mapper
                       ELSE [mapper EXCEPT !.commands =
                                commands_after_map(@, req.intent, Some(req.entities))]
    /\ UNCHANGED SharedButMapper

TextMap ==
    /\ req.kind = "text" /\ req.pc = "map"
    /\ \E raised \in BOOLEAN :
          /\ req' = Failed(process_text_map(req, raised, mapper), raised, "map")
          /\ mapper' = IF raised THEN mapper
                       ELSE [mapper EXCEPT !.commands =
                                commands_after_map(@, req.intent, Some(req.entities))]
    /\ UNCHANGED SharedButMapper

AudioValidate ==
    /\ req.kind = "audio" /\ req.pc = "validate"
    /\ req' = Failed(process_audio_validate(req), ~validate_command(req.command[1]),
                     "validate")
    /\ UNCHANGED Shared

TextValidate ==
    /\ req.kind = "text" /\ req.pc = "validate"
    /\ req' = Failed(process_text_validate(req), ~validate_command(req.command[1]),
                     "validate")
    /\ UNCHANGED Shared

-----------------------------------------------------------------------------
(* reload_configurations: five assignments to self, one after the other *)

ReloadIntents ==
    /\ reloadPc = "idle"
    /\ intents_config' = load_intents_config(srcCfg)
    /\ reloadPc' = "commands"
    /\ UNCHANGED <<srcCfg, use_mock, commands_config, nlu, mapper, auth, req, call>>

ReloadCommands ==
    /\ reloadPc = "commands"
    /\ commands_config' = load_commands_config(srcCfg)
    /\ reloadPc' = "nlu"
    /\ UNCHANGED <<srcCfg, use_mock, intents_config, nlu, mapper, auth, req, call>>

\* self.nlu = NLUEngine(...): the real engine, whatever use_mock is
ReloadNlu ==
    /\ reloadPc = "nlu"
    /\ nlu' = NewNLU("real", intents_config)
    /\ reloadPc' = "mapper"
    /\ UNCHANGED <<srcCfg, use_mock, intents_config, commands_config, mapper, auth,
                   req, call>>

ReloadMapper ==
    /\ reloadPc = "mapper"
    /\ mapper' = NewMapper(commands_config)
    /\ reloadPc' = "auth"
    /\ UNCHANGED <<srcCfg, use_mock, intents_config, commands_config, nlu, auth,
                   req, call>>

ReloadAuth ==
    /\ reloadPc = "auth"
    /\ auth' = NewAuth(commands_config)
    /\ reloadPc' = "idle"
    /\ UNCHANGED <<srcCfg, use_mock, intents_config, commands_config, nlu, mapper,
                   req, call>>

\* the configuration files are edited on disk, while no reload is reading them
EditSource ==
    /\ reloadPc = "idle"
    /\ \E c \in 1..Len(Configs) : c # srcCfg /\ srcCfg' = c
    /\ UNCHANGED <<use_mock, intents_config, commands_config, nlu, mapper, auth,
                   reloadPc, req, call>>

\* processor.auth_manager.add_authorized_intent(intent)
AddAuthorizedIntent ==
    /\ \E i \in AuthIntents :
          /\ Len(auth.authorized_intents) < MaxAuthLen
          /\ auth' = [auth EXCEPT !.authorized_intents = add_authorized_intent(@, i)]
    /\ UNCHANGED <<srcCfg, use_mock, intents_config, commands_config, nlu, mapper,
                   reloadPc, req, call>>

\* processor.auth_manager.remove_authorized_intent(intent)
RemoveAuthorizedIntent ==
    /\ \E i \in AuthIntents :
          auth' = [auth EXCEPT !.authorized_intents = remove_authorized_intent(@, i)]
    /\ UNCHANGED <<srcCfg, use_mock, intents_config, commands_config, nlu, mapper,
                   reloadPc, req, call>>

Next ==
    \/ StartText \/ StartAudio
    \/ AudioTranscribe \/ AudioClassify \/ TextClassify \/ Extract
    \/ AudioAuthorize \/ TextAuthorize \/ AudioMap \/ TextMap
    \/ AudioValidate \/ TextValidate
    \/ ReloadIntents \/ ReloadCommands \/ ReloadNlu \/ ReloadMapper \/ ReloadAuth
    \/ EditSource \/ AddAuthorizedIntent \/ RemoveAuthorizedIntent

Spec == Init /\ [][Next]_vars

-----------------------------------------------------------------------------
(* Direct calls of the CommandMapper methods *)

\* template tables a CommandMapper is constructed with; every command_type
\* is a non-empty string
TemplateTables ==
    { Configs[1].commands, Configs[2].commands,
      << [key |-> "halt", command_type |-> "error",
          parameters |-> ("act" :> "none"), description |-> "report"] >>,
      << >> }

MapIntents == {"stop", "go", "halt", "no_such_intent"}

MapConfidences == {0, 6996, 7004, 15000}

MapEntities ==
    { None, Some(EmptyDict), Some("act" :> "halt"),
      Some("act" :> "run" @@ "am" :> "yes") }

MapTexts == { None, Some(<<>>), Some(<<"a", "c", "t">>) }

\* a CommandMapper over any of the template tables
InitMapper ==
    /\ srcCfg = 1
    /\ use_mock = FALSE
    /\ intents_config = load_intents_config(1)
    /\ commands_config \in {[gen |-> 1, table |-> t] : t \in TemplateTables}
    /\ nlu = NewNLU("real", intents_config)
    /\ mapper = NewMapper(commands_config)
    /\ auth = NewAuth(commands_config)
    /\ reloadPc = "idle"
    /\ req = IdleReq
    /\ call = NoCall

\* mapper.map_intent_to_command(intent, confidence, entities, transcribed_text)
CallMap ==
    /\ \E i \in MapIntents, c \in MapConfidences, e \in MapEntities, t \in MapTexts :
          call' = [op |-> "map", intent |-> i, confidence |-> c, entities |-> e,
                   text |-> t,
                   result |-> map_intent_to_command(mapper.commands, i, c, e, t)]
    /\ UNCHANGED <<srcCfg, use_mock, intents_config, commands_config, nlu, mapper, auth,
                   reloadPc, req>>

\* values a caller may put under "confidence"
ConfidenceValues ==
    {[t |-> "float", v |-> c] : c \in {-1, 0, 5000, Scale, Scale + 1}}
    \cup {[t |-> "int", v |-> c] : c \in {-Scale, 0, Scale, 2 * Scale}}
    \cup {[t |-> "bool", v |-> Scale], [t |-> "str", v |-> 0], [t |-> "none", v |-> 0]}

\* dicts handed to validate_command: any subset of the fields of a Command
ValidateInputs ==
    { [f \in F |-> IF f = "confidence" THEN cv ELSE "x"] :
        F \in SUBSET {"command_type", "intent", "confidence", "timestamp", "parameters"},
        cv \in ConfidenceValues }

\* mapper.validate_command(command_json)
CallValidate ==
    /\ \E cmd \in ValidateInputs :
          call' = [op |-> "validate", command |-> cmd, result |-> validate_command(cmd)]
    /\ UNCHANGED <<srcCfg, use_mock, intents_config, commands_config, nlu, mapper, auth,
                   reloadPc, req>>

NextMapper == CallMap \/ CallValidate

SpecMapper == InitMapper /\ [][NextMapper]_vars

-----------------------------------------------------------------------------
(* Direct calls of the CommandAuthorizationManager methods *)

\* lists a CommandAuthorizationManager is constructed from
AuthLists ==
    { None, Some(<<>>), Some(<<"stop">>), Some(<<"stop", "go">>), Some(<<"go", "go">>) }

CheckIntents == {"stop", "go", "test_intent"}

CheckConfidences == {0, 6996, 7000, 7999, 8000, Scale}

CheckMins == {None, Some(0), Some(7000), Some(Scale)}

\* CommandAuthorizationManager(authorized_intents)
InitAuth ==
    /\ srcCfg = 1
    /\ use_mock = FALSE
    /\ intents_config = load_intents_config(1)
    /\ commands_config = load_commands_config(1)
    /\ nlu = NewNLU("real", intents_config)
    /\ mapper = NewMapper(commands_config)
    /\ auth \in {[authorized_intents |-> NewAuthorizationManager(l), gen |-> 1] :
                    l \in AuthLists}
    /\ reloadPc = "idle"
    /\ req = IdleReq
    /\ call = NoCall

\* auth.is_authorized(intent, confidence[, min_confidence])
CallIsAuthorized ==
    /\ \E i \in CheckIntents, c \in CheckConfidences, m \in CheckMins :
          call' = [op |-> "is_authorized", authorized |-> auth.authorized_intents,
                   intent |-> i, confidence |-> c, min |-> m,
                   result |-> is_authorized(auth.authorized_intents, i, c, m)]
    /\ UNCHANGED <<srcCfg, use_mock, intents_config, commands_config, nlu, mapper, auth,
                   reloadPc, req>>

\* auth.add_authorized_intent(intent), the call kept for inspection
CallAdd ==
    /\ \E i \in AuthIntents :
          /\ Len(auth.authorized_intents) < MaxAuthLen
          /\ auth' = [auth EXCEPT !.authorized_intents = add_authorized_intent(@, i)]
          /\ call' = [op |-> "add", intent |-> i]
    /\ UNCHANGED <<srcCfg, use_mock, intents_config, commands_config, nlu, mapper,
                   reloadPc, req>>

\* auth.remove_authorized_intent(intent), the call kept for inspection
CallRemove ==
    /\ \E i \in AuthIntents :
          /\ auth' = [auth EXCEPT !.authorized_intents = remove_authorized_intent(@, i)]
          /\ call' = [op |-> "remove", intent |-> i]
    /\ UNCHANGED <<srcCfg, use_mock, intents_config, commands_config, nlu, mapper,
                   reloadPc, req>>

\* VoiceCommandProcessor.get_status(): the entries that depend on the state
get_status(intents, commands, manager) ==
    [intents_loaded     |-> Len(intents.table),
     commands_loaded    |-> Len(commands.table),
     authorized_intents |-> list_authorized_intents(manager.authorized_intents)]

\* auth.list_authorized_intents(), or get_status()["authorized_intents"]:
\* the caller keeps the list it was given; `policy` is the manager's list at
\* the time of the call
CallList ==
    /\ \E via \in {"list_authorized_intents", "get_status"} :
          call' = [op |-> "list", via |-> via, policy |-> auth.authorized_intents,
                   mutated |-> FALSE,
                   returned |->
                      IF via = "get_status"
                      THEN get_status(intents_config, commands_config,
                                      auth).authorized_intents
                      ELSE list_authorized_intents(auth.authorized_intents)]
    /\ UNCHANGED <<srcCfg, use_mock, intents_config, commands_config, nlu, mapper, auth,
                   reloadPc, req>>

\* the caller appends to the list it was given, or removes from it; a change
\* of the manager's own list object is a change of the policy
MutateReturned ==
    /\ call.op = "list"
    /\ \E i \in AuthIntents :
          \E items \in {Append(call.returned.items, i)}
                        \cup (IF InList(i, call.returned.items)
                              THEN {ListRemove(call.returned.items, i)} ELSE {}) :
             /\ Len(items) <= MaxAuthLen
             /\ call' = [call EXCEPT !.returned.items = items, !.mutated = TRUE]
             /\ auth' = IF call.returned.live
                        THEN [auth EXCEPT !.authorized_intents = items]
                        ELSE auth
    /\ UNCHANGED <<srcCfg, use_mock, intents_config, commands_config, nlu, mapper,
                   reloadPc, req>>

NextAuth == CallIsAuthorized \/ CallAdd \/ CallRemove \/ CallList \/ MutateReturned

SpecAuth == InitAuth /\ [][NextAuth]_vars

-----------------------------------------------------------------------------
(* add_authorized_intent and remove_authorized_intent called from two       *)
(* threads.  Each method is a membership test followed by a list mutation;  *)
(* the interpreter may switch threads between the two.                      *)

Threads == 1..2

\* lists without repetition the manager starts from
RaceLists == { <<>>, <<"go">>, <<"stop", "go">> }

\* the call each thread makes
ThreadCalls ==
    {[do |-> d, intent |-> i, pc |-> "test"] :
        d \in {"add", "remove"}, i \in {"go", "stop"}}

InitAuthRace ==
    /\ srcCfg = 1
    /\ use_mock = FALSE
    /\ intents_config = load_intents_config(1)
    /\ commands_config = load_commands_config(1)
    /\ nlu = NewNLU("real", intents_config)
    /\ mapper = NewMapper(commands_config)
    /\ auth \in {[authorized_intents |-> NewAuthorizationManager(Some(l)), gen |-> 1] :
                    l \in RaceLists}
    /\ reloadPc = "idle"
    /\ req = IdleReq
    /\ call \in {[op |-> "threads", th |-> th] : th \in [Threads -> ThreadCalls]}

\* `if intent not in self.authorized_intents` / `if intent in self.authorized_intents`
ThreadTest(t) ==
    /\ call.th[t].pc = "test"
    /\ LET member == InList(call.th[t].intent, auth.authorized_intents)
           enters == IF call.th[t].do = "add" THEN ~member ELSE member
       IN  call' = [call EXCEPT !.th[t].pc = IF enters THEN "mutate" ELSE "done"]
    /\ UNCHANGED <<srcCfg, use_mock, intents_config, commands_config, nlu, mapper, auth,
                   reloadPc, req>>

\* self.authorized_intents.append(intent)
ThreadAppend(t) ==
    /\ call.th[t].pc = "mutate" /\ call.th[t].do = "add"
    /\ auth' = [auth EXCEPT !.authorized_intents = Append(@, call.th[t].intent)]
    /\ call' = [call EXCEPT !.th[t].pc = "done"]
    /\ UNCHANGED <<srcCfg, use_mock, intents_config, commands_config, nlu, mapper,
                   reloadPc, req>>

\* self.authorized_intents.remove(intent): ValueError when the other thread
\* has removed the intent since the test
ThreadRemove(t) ==
    /\ call.th[t].pc = "mutate" /\ call.th[t].do = "remove"
    /\ IF InList(call.th[t].intent, auth.authorized_intents)
       THEN /\ auth' = [auth EXCEPT
                           !.authorized_intents = ListRemove(@, call.th[t].intent)]
            /\ call' = [call EXCEPT !.th[t].pc = "done"]
       ELSE /\ auth' = auth
            /\ call' = [call EXCEPT !.th[t].pc = "raised"]
    /\ UNCHANGED <<srcCfg, use_mock, intents_config, commands_config, nlu, mapper,
                   reloadPc, req>>

NextAuthRace ==
    \E t \in Threads : ThreadTest(t) \/ ThreadAppend(t) \/ ThreadRemove(t)

SpecAuthRace == InitAuthRace /\ [][NextAuthRace]_vars

-----------------------------------------------------------------------------
(* Direct calls of the NLUEngine methods, and process_text on that engine *)

\* intents tables an NLUEngine is constructed with: the two configurations,
\* no intents, and one intent whose only pattern is made of stop words
IntentTables ==
    { Configs[1].intents, Configs[2].intents, << >>,
      << [key |-> "wait", patterns |-> << <<"a", "m", " ", "a">> >>,
          actions |-> EmptyDict] >> }

\* values passed as `text`: "", "act", "Am act", "act mode", "mode", and a
\* value that is no str
NluInputs ==
    {[kind |-> "text", text |-> t] :
        t \in { <<>>, <<"a", "c", "t">>, <<"A", "m", " ", "a", "c", "t">>,
                <<"a", "c", "t", " ", "m", "o", "d", "e">>, <<"m", "o", "d", "e">> }}
    \cup {[kind |-> "nontext", text |-> <<>>]}

\* what the vectorizer does in a call of classify_intent
VectorizerOutcomes == {"ok", "transform_raises", "cosine_raises"}

\* the calls made on the engine: the arguments of one call of
\* classify_intent, of extract_entities or of process_text, and what the
\* collaborators do during it
NluCalls ==
    {[op |-> "pending", do |-> "classify", input |-> input,
      use_similarity |-> use_similarity, vec |-> vec] :
        input \in NluInputs, use_similarity \in BOOLEAN, vec \in VectorizerOutcomes}
    \cup {[op |-> "pending", do |-> "extract", text |-> input.text] :
             input \in {i \in NluInputs : i.kind = "text"}}
    \cup {[op |-> "pending", do |-> d, input |-> input,
           min_confidence |-> mc, vec |-> vec,
           extract_raises |-> er, map_raises |-> mr] :
             d \in {"process_text", "process_audio"},
             input \in {i \in NluInputs : i.kind = "text"}, mc \in MinConfs,
             vec \in VectorizerOutcomes, er \in BOOLEAN, mr \in BOOLEAN}

\* an NLUEngine over any of the tables, inside a processor, and a call to make
InitNlu ==
    /\ srcCfg = 1
    /\ use_mock = FALSE
    /\ intents_config \in {[gen |-> 1, table |-> t] : t \in IntentTables}
    /\ commands_config = load_commands_config(1)
    /\ nlu \in {_build_intent_index(NewNLU("real", intents_config), th, w) :
                   th \in {ConfidenceThreshold, 5000},
                   w \in Weights(intents_config.table)}
    /\ mapper = NewMapper(commands_config)
    /\ auth \in {NewAuth(commands_config),
                 [NewAuth(commands_config) EXCEPT
                     !.authorized_intents = add_authorized_intent(@, "unknown")]}
    /\ reloadPc = "idle"
    /\ req = IdleReq
    /\ call \in NluCalls

\* nlu.classify_intent(text, use_similarity)
CallClassify ==
    /\ call.do = "classify"
    /\ call' = [op |-> "classify", do |-> call.do, input |-> call.input,
                use_similarity |-> call.use_similarity, vec |-> call.vec,
                result |-> classify_intent(nlu, call.input, call.use_similarity,
                                           call.vec)]
    /\ UNCHANGED <<srcCfg, use_mock, intents_config, commands_config, nlu, mapper, auth,
                   reloadPc, req>>

\* nlu.extract_entities(text)
CallExtract ==
    /\ call.do = "extract"
    /\ call' = [op |-> "extract", do |-> call.do, text |-> call.text,
                result |-> extract_entities(nlu, call.text)]
    /\ UNCHANGED <<srcCfg, use_mock, intents_config, commands_config, nlu, mapper, auth,
                   reloadPc, req>>

\* process_text(text, min_confidence), run from entry to return by one thread
process_text(text, min_confidence, engine, manager, m, out, extract_raises, map_raises) ==
    LET r0 == [IdleReq EXCEPT !.kind = "text", !.pc = "classify",
                              !.text = text, !.minc = min_confidence]
        r1 == Failed(process_text_classify(r0, out, engine.gen), out.raised, "classify")
        r2 == IF r1.pc = "done" THEN r1
              ELSE [process_extract(r1, extract_raises, engine)
                       EXCEPT !.extractFailed = extract_raises]
        r3 == IF r2.pc = "done" THEN r2 ELSE process_text_authorize(r2, manager)
        r4 == IF r3.pc = "done" THEN r3
              ELSE Failed(process_text_map(r3, map_raises, m), map_raises, "map")
    IN  IF r4.pc = "done" THEN r4
        ELSE Failed(process_text_validate(r4), ~validate_command(r4.command[1]),
                    "validate")

\* process_audio(audio_input, language, min_confidence), run from entry to
\* return by one thread; `heard` is what the transcription does
process_audio(heard, min_confidence, engine, manager, m, out, ex_raises, map_raises) ==
    LET r0 == [IdleReq EXCEPT !.kind = "audio", !.pc = "transcribe",
                              !.minc = min_confidence]
        r1 == [Failed(process_audio_transcribe(r0, heard), heard.kind = "raise",
                      "transcribe") EXCEPT !.heard = heard.kind]
        r2 == IF r1.pc = "done" THEN r1
              ELSE Failed(process_audio_classify(r1, out, engine.gen), out.raised,
                          "classify")
        r3 == IF r2.pc = "done" THEN r2
              ELSE [process_extract(r2, ex_raises, engine)
                       EXCEPT !.extractFailed = ex_raises]
        r4 == IF r3.pc = "done" THEN r3 ELSE process_audio_authorize(r3, manager)
        r5 == IF r4.pc = "done" THEN r4
              ELSE Failed(process_audio_map(r4, map_raises, m), map_raises, "map")
    IN  IF r5.pc = "done" THEN r5
        ELSE Failed(process_audio_validate(r5), ~validate_command(r5.command[1]),
                    "validate")

\* self.mapper after a request that ended as r
mapper_after(m, r, map_raises) ==
    IF InList("map", r.stages) /\ ~map_raises
    THEN [m EXCEPT !.commands = commands_after_map(@, r.intent, Some(r.entities))]
    ELSE m

\* a caller invokes process_text on the processor with the real engine
CallProcessText ==
    /\ call.do = "process_text"
    /\ req' = process_text(call.input.text, call.min_confidence, nlu, auth, mapper,
                           classify_intent(nlu, call.input, TRUE, call.vec),
                           call.extract_raises, call.map_raises)
    /\ mapper' = mapper_after(mapper, req', call.map_raises)
    /\ call' = [call EXCEPT !.op = "process_text"]
    /\ UNCHANGED <<srcCfg, use_mock, intents_config, commands_config, nlu, auth,
                   reloadPc>>

\* a caller invokes process_audio on that processor and the transcription
\* returns the text; `twin` is what process_text returns for that text, with
\* the same configuration, min_confidence and collaborators
CallProcessAudio ==
    /\ call.do = "process_audio"
    /\ req' = process_audio(call.input, call.min_confidence, nlu, auth, mapper,
                            classify_intent(nlu, call.input, TRUE, call.vec),
                            call.extract_raises, call.map_raises)
    /\ mapper' = mapper_after(mapper, req', call.map_raises)
    /\ call' = [op |-> "process_audio", do |-> call.do, input |-> call.input,
                min_confidence |-> call.min_confidence, vec |-> call.vec,
                extract_raises |-> call.extract_raises,
                map_raises |-> call.map_raises,
                twin |-> process_text(call.input.text, call.min_confidence, nlu, auth,
                                      mapper,
                                      classify_intent(nlu, call.input, TRUE, call.vec),
                                      call.extract_raises, call.map_raises)]
    /\ UNCHANGED <<srcCfg, use_mock, intents_config, commands_config, nlu, auth,
                   reloadPc>>

NextNlu == CallClassify \/ CallExtract \/ CallProcessText \/ CallProcessAudio

SpecNlu == InitNlu /\ [][NextNlu]_vars

-----------------------------------------------------------------------------
(* Properties *)

Done == req.pc = "done"

Returned == Done /\ Len(req.result) = 1

Result == req.result[1]

Range(list) == {list[k] : k \in 1..Len(list)}

\* the authorization stage of the request ran and is_authorized had to
\* return false: the intent was not in the list, or the confidence was low
AuthorizationRefused ==
    /\ Len(req.authSeen) = 1
    /\ ~(req.authSeen[1] /\ req.conf >= req.minc)

\* C1: process_text and process_audio always return exactly one result, of
\* status success, rejected or error; no exception leaves either entry point,
\* whatever the transcription, the classification, the extraction, the
\* mapping and the validation do.
C1_NeverRaises ==
    Done => /\ req.escaped = ""
            /\ Len(req.result) = 1
            /\ Result.status \in {"success", "rejected", "error"}

\* C2: a result of status success is for an intent that was in the authorized
\* list, with a classification confidence >= min_confidence, when the
\* authorization stage of that request ran, whatever add_authorized_intent
\* and remove_authorized_intent calls came before.
C2_SuccessWasAuthorized ==
    (Returned /\ Result.status = "success") =>
        /\ req.authSeen = Some(TRUE)
        /\ req.conf >= req.minc
        /\ Result.intent = req.intent

\* C2 witness: a success for an intent that add_authorized_intent authorized
C2_Witness ==
    /\ Returned /\ Result.status = "success"
    /\ Result.intent = "test_intent"
    /\ "test_intent" \notin Range(Keys(mapper.commands))

\* C3: is_authorized(i, c, m) is true exactly when i is in the authorized
\* list and c >= m, with m = 0.8 when it is omitted.
C3_IsAuthorizedIff ==
    call.op = "is_authorized" =>
        LET m == IF call.min = None THEN (8 * Scale) \div 10 ELSE call.min[1]
        IN  call.result <=> (call.intent \in Range(call.authorized)
                             /\ call.confidence >= m)

\* C3 witness: an authorized intent at exactly the default threshold passes
C3_Witness ==
    /\ call.op = "is_authorized"
    /\ call.min = None
    /\ call.intent \in Range(call.authorized)
    /\ call.confidence = (8 * Scale) \div 10
    /\ call.result

\* C4: when the authorization stage returns false, the request ends with a
\* result of status rejected carrying stage "authorization", reason
\* "Authorization failed", the intent, the confidence and the input text, in
\* process_text as in process_audio.
C4_RejectedCarriesStage ==
    AuthorizationRefused =>
        /\ Returned
        /\ Result = [status |-> "rejected", reason |-> "Authorization failed",
                     intent |-> req.intent, confidence |-> Round3(req.conf),
                     transcribed_text |-> req.text, stage |-> "authorization"]

\* the configuration generations the stages of the request have read
GensRead == {req.gens[st] : st \in {"classify", "extract", "authorize", "map"}} \ {-1}

\* C5: with reload_configurations running beside a request, the request
\* classifies, extracts, authorizes and maps against one configuration
\* generation only: all from before the reload or all from after it.
C5_OneGeneration == Cardinality(GensRead) <= 1

StageTag(stage) ==
    CASE stage = "transcribe" -> "asr"
      [] stage = "classify"   -> "nlu"
      [] stage = "map"        -> "mapper"
      [] stage = "validate"   -> "validation"

\* C6: a transcription error, a classification exception, a mapping exception
\* and a validation failure each end the request at that stage: no later
\* stage runs, and the result has status error and the tag of that stage.
C6_FailureEndsAtStage ==
    req.fault # "" =>
        /\ Returned
        /\ req.escaped = ""
        /\ req.stages[Len(req.stages)] = req.fault
        /\ Result.status = "error"
        /\ Result.stage = StageTag(req.fault)

\* C6 witness: a mapping exception in process_text
C6_Witness ==
    /\ req.kind = "text" /\ req.fault = "map"
    /\ Returned /\ Result.stage = "mapper"

\* C7: a Command returned by map_intent_to_command has status "rejected"
\* exactly when its command_type is "error", for any template table whose
\* command types are non-empty.
C7_RejectedIffError ==
    call.op = "map" =>
        (call.result.status = "rejected" <=> call.result.command_type = "error")

UnknownIntentCall == call.op = "map" /\ ~HasKey(mapper.commands, call.intent)

\* C8: for an intent that is no key of the template table, whatever the
\* confidence, the entities and the text, map_intent_to_command returns a
\* Command of command_type "error" and status "rejected" with empty
\* parameters and an error field; so does every repetition of the call.
C8_UnknownIntentCommand ==
    UnknownIntentCall =>
        /\ call.result.command_type = "error"
        /\ call.result.status = "rejected"
        /\ DOMAIN call.result.parameters = {}
        /\ "error" \in DOMAIN call.result

\* C8 witness: an unknown intent mapped with entities and a confidence above 1
C8_Witness ==
    /\ UnknownIntentCall
    /\ call.intent = "no_such_intent"
    /\ call.confidence > Scale
    /\ Len(call.entities) = 1 /\ DOMAIN call.entities[1] # {}
    /\ mapper.commands # <<>>

KnownIntentCall == call.op = "map" /\ HasKey(mapper.commands, call.intent)

\* C9: the parameters of the Command of a template with base parameters B,
\* mapped with entities E, have the keys of B and of E, the value E[k] for a
\* key of E and B[k] for a key of B that is not in E.
C9_MergedParameters ==
    KnownIntentCall =>
        LET B == Lookup(mapper.commands, call.intent).parameters
            E == IF call.entities = None THEN EmptyDict ELSE call.entities[1]
            P == call.result.parameters
        IN  /\ DOMAIN P = DOMAIN B \cup DOMAIN E
            /\ \A k \in DOMAIN E : P[k] = E[k]
            /\ \A k \in DOMAIN B \ DOMAIN E : P[k] = B[k]

\* C9 witness: an entity overrides a base parameter, another base parameter
\* is kept and an entity adds a key
C9_Witness ==
    /\ KnownIntentCall
    /\ LET B == Lookup(mapper.commands, call.intent).parameters
           E == IF call.entities = None THEN EmptyDict ELSE call.entities[1]
       IN  /\ \E k \in DOMAIN B \cap DOMAIN E : B[k] # E[k]
           /\ DOMAIN B \ DOMAIN E # {}
           /\ DOMAIN E \ DOMAIN B # {}

\* C10: validate_command(cmd) is true exactly when cmd has the fields
\* command_type, intent, confidence and timestamp, its confidence is a number
\* and 0 <= confidence <= 1.
C10_ValidateIff ==
    call.op = "validate" =>
        LET cmd == call.command
        IN  call.result <=>
               /\ {"command_type", "intent", "confidence", "timestamp"} \subseteq DOMAIN cmd
               /\ cmd.confidence.t \in {"int", "float", "bool"}
               /\ cmd.confidence.v >= 0
               /\ cmd.confidence.v <= Scale

\* C10 witness: a complete command whose confidence is a number above 1
C10_Witness ==
    /\ call.op = "validate"
    /\ {"command_type", "intent", "confidence", "timestamp"} \subseteq DOMAIN call.command
    /\ call.command.confidence.t = "float"
    /\ call.command.confidence.v > Scale
    /\ ~call.result

\* which way a call of classify_intent went: no intents, the similarity
\* scoring, the keyword scoring, or a failure that neither scoring survived
Path(c) ==
    LET primary == c.use_similarity /\ nlu.pattern_vectors # {}
    IN  IF nlu.intent_candidates = <<>> THEN "empty"
        ELSE IF c.input.kind # "text" THEN "error"
        ELSE IF primary /\ c.vec = "ok" THEN "primary"
        ELSE IF primary /\ c.vec = "cosine_raises" THEN "error"
        ELSE "fallback"

\* the score of every pattern in a call, in configuration order
PatternScores(c) ==
    [k \in 1..Len(nlu.all_patterns) |->
        IF Path(c) = "primary"
        THEN cosine_similarity(nlu, c.input.text, k)
        ELSE OverlapScore(c.input.text, nlu.all_patterns[k].pattern)]

\* the winning score of a call: the largest score of a pattern, 0.0 with none
WinningScore(c) ==
    LET scores == PatternScores(c)
    IN  IF Len(scores) = 0 THEN 0
        ELSE CHOOSE m \in Range(scores) : \A x \in Range(scores) : x <= m

Scored(c) == c.op = "classify" /\ Path(c) \in {"primary", "fallback"}

\* C11: in classify_intent, by the similarity scoring or by the keyword
\* scoring, a winning score below the confidence threshold gives the intent
\* "unknown" with that score as the confidence, so an intent other than
\* "unknown" always comes with a confidence >= threshold.
C11_BelowThresholdIsUnknown ==
    Scored(call) =>
        /\ WinningScore(call) < nlu.threshold =>
              /\ call.result.intent = "unknown"
              /\ call.result.confidence = WinningScore(call)
        /\ call.result.intent # "unknown" => call.result.confidence >= nlu.threshold

\* C12: classify_intent never lets an exception out: a scoring failure that
\* the keyword scoring does not recover gives ("unknown", 0.0), and so does
\* an index without intents.
C12_ClassifyNeverRaises ==
    call.op = "classify" =>
        /\ ~call.result.raised
        /\ Path(call) \in {"error", "empty"} => call.result = UnknownZero

\* C12 witness: a value that is no str, on an engine with fitted patterns:
\* the transform fails, the keyword scoring fails too, ("unknown", 0.0) returns
C12_Witness ==
    /\ call.op = "classify"
    /\ call.input.kind = "nontext"
    /\ call.use_similarity /\ nlu.pattern_vectors # {}
    /\ call.result = UnknownZero

\* the intent that comes first in configuration order among those with a
\* pattern of the winning score
FirstWinner(c) ==
    LET scores == PatternScores(c)
        k == CHOOSE i \in 1..Len(scores) :
                 /\ scores[i] = WinningScore(c)
                 /\ \A j \in 1..(i - 1) : scores[j] # WinningScore(c)
    IN  nlu.all_patterns[k].intent

C14_ConfidenceInUnitInterval ==
    call.op = "classify" =>
        /\ 0 <= call.result.confidence
        /\ call.result.confidence <= Scale

\* the pairs of the actions of all intents whose lower-cased key is in the
\* lower-cased text, a later intent's value replacing an earlier one's
ExpectedEntities(intents, text) ==
    LET has(n, k) == k \in DOMAIN intents[n].actions
        keys == {k \in UNION {DOMAIN intents[n].actions : n \in 1..Len(intents)} :
                    IsSubstring(Lower(Spell(k)), Lower(text))}
    IN  [k \in keys |->
            LET last == CHOOSE n \in 1..Len(intents) :
                            has(n, k) /\ \A j \in (n + 1)..Len(intents) : ~has(j, k)
            IN  intents[last].actions[k]]

\* C15: extract_entities(text) returns exactly the pairs of the actions of
\* every configured intent whose lower-cased key is a substring of the
\* lower-cased text, the later intent's value on a shared key.
C15_ExtractLowerCasedKeys ==
    call.op = "extract" => call.result = ExpectedEntities(nlu.intents, call.text)

\* the command templates the mapping stage of the request read
TemplatesRead == Configs[req.gens.map].commands

\* C16: when extract_entities raises, the request is not ended: it goes on
\* to the authorization with no entities, and what it returns is what it
\* returns with an extraction that found nothing.
C16_ExtractionFailureContinues ==
    req.extractFailed =>
        /\ req.escaped = ""
        /\ req.entities = EmptyDict
        /\ req.stages[Len(req.stages)] = "extract" => req.pc = "authorize"
        /\ req.pc = "done" => "authorize" \in Range(req.stages)
        /\ req.command # None =>
              req.command[1] = map_intent_to_command(TemplatesRead, req.intent, req.conf,
                                                     Some(EmptyDict), Some(req.text))
        /\ (Returned /\ Result.status = "success") => Result.command = req.command[1]

\* C16 witness: a success after a failed extraction, on a text in which the
\* extraction would have found an entity
C16_Witness ==
    /\ req.extractFailed
    /\ Returned /\ Result.status = "success"
    /\ LET intents == Configs[req.gens.extract].intents
       IN  ExtractFrom(intents, Len(intents), Lower(req.text)) # EmptyDict

\* the transcription of the request returned an empty or whitespace-only text
BlankTranscription ==
    req.kind = "audio" /\ req.heard = "text" /\ Strip(req.text) = <<>>

\* C17: in process_audio a blank transcription ends the request with status
\* error, stage "asr" and "No speech detected"; no classification, entity
\* extraction, authorization or mapping runs for it.
C17_BlankTranscriptionEnds ==
    BlankTranscription =>
        /\ Returned
        /\ Result = [status |-> "error", error |-> "No speech detected",
                     stage |-> "asr"]
        /\ req.stages = <<"transcribe">>

\* C17 witness: a transcription of one space
C17_Witness ==
    /\ BlankTranscription /\ req.text = <<" ">>
    /\ Returned /\ Result.stage = "asr"

\* C18: when validate_command returns false, process_text and process_audio
\* return status error, stage "validation", with the Command that failed.
C18_ValidationErrorCarriesCommand ==
    req.fault = "validate" =>
        /\ Returned
        /\ Result.status = "error"
        /\ Result.stage = "validation"
        /\ "command" \in DOMAIN Result
        /\ Result.command = req.command[1]

\* a request whose classification returned, whose intent was authorized with
\* a sufficient confidence, whose mapping did not raise and whose validation
\* passed
AllStagesPassed ==
    /\ Done /\ req.escaped = "" /\ req.fault = ""
    /\ req.authSeen = Some(TRUE) /\ req.conf >= req.minc

\* what a success carries besides its confidence
SuccessCarries ==
    /\ Returned
    /\ Result.status = "success"
    /\ Result.command = req.command[1]
    /\ Result.transcribed_text = req.text
    /\ Result.intent = req.intent
    /\ Result.command.command_type = Lookup(TemplatesRead, req.intent).command_type
    /\ Result.command.status = "authorized"

\* C19, as stated: with intent i authorized, c >= min_confidence, a template
\* for i and a valid Command, the request ends with status success carrying
\* the Command, the text, i and c, the Command of the template's
\* command_type and of status "authorized".
C19_SuccessCarriesConfidence ==
    AllStagesPassed =>
        /\ req.gens.map # -1
        /\ HasKey(TemplatesRead, req.intent) =>
              (SuccessCarries /\ Result.confidence = req.conf)

\* C19, amended: the same, the confidence carried being round(c, 3).
C19_SuccessCarriesRounded ==
    AllStagesPassed =>
        /\ req.gens.map # -1
        /\ HasKey(TemplatesRead, req.intent) =>
              (SuccessCarries /\ Result.confidence = Round3(req.conf))

\* C19 witness: a success whose confidence 0.7004 is carried as 0.7
C19_Witness ==
    /\ AllStagesPassed /\ HasKey(TemplatesRead, req.intent)
    /\ Returned /\ Result.status = "success"
    /\ req.conf = 7004 /\ Result.confidence = ConfidenceThreshold

\* process_text("") has returned or raised
EmptyTextCall == req.kind = "text" /\ req.pc = "done" /\ req.text = <<>>

\* C20, as stated: process_text("") returns, without raising, a result of
\* status error with stage "nlu".
C20_EmptyTextIsNluError ==
    EmptyTextCall =>
        /\ req.escaped = ""
        /\ Returned
        /\ Result.status = "error"
        /\ Result.stage = "nlu"

\* C20, amended: process_text("") returns without raising; the classifier
\* gives ("unknown", 0.0) and no error of stage "nlu" comes of it: unless
\* "unknown" is authorized and min_confidence <= 0, the result is rejected
\* with reason "Authorization failed".
C20_EmptyTextIsRejected ==
    EmptyTextCall =>
        /\ req.escaped = ""
        /\ Returned
        /\ req.intent = "unknown" /\ req.conf = 0
        /\ ~(Result.status = "error" /\ Result.stage = "nlu")
        /\ (~InList("unknown", auth.authorized_intents) \/ req.minc > 0) =>
              /\ Result.status = "rejected"
              /\ Result.reason = "Authorization failed"
              /\ Result.intent = "unknown"
              /\ Result.confidence = 0
              /\ Result.transcribed_text = <<>>

\* C20 witness: process_text("", min_confidence=0.7) is rejected
C20_Witness ==
    /\ EmptyTextCall /\ req.minc = ConfidenceThreshold
    /\ nlu.intent_candidates # <<>>
    /\ Returned /\ Result.status = "rejected"

\* occurrences of x in a list
Count(x, list) == Cardinality({k \in 1..Len(list) : list[k] = x})

\* C21: for a manager constructed from any list, after add(i) the intent i is
\* a member exactly once, and after remove(i) it is no member and
\* is_authorized(i, c, m) is false for all c and m; repeating the call
\* changes nothing.
C21_AddRemoveIdempotent ==
    /\ call.op = "add" =>
          /\ Count(call.intent, auth.authorized_intents) = 1
          /\ add_authorized_intent(auth.authorized_intents, call.intent)
                = auth.authorized_intents
    /\ call.op = "remove" =>
          /\ ~InList(call.intent, auth.authorized_intents)
          /\ \A c \in CheckConfidences, m \in CheckMins :
                ~is_authorized(auth.authorized_intents, call.intent, c, m)
          /\ remove_authorized_intent(auth.authorized_intents, call.intent)
                = auth.authorized_intents

\* C22: the list list_authorized_intents (and get_status) returns is a copy:
\* whatever the caller appends to it or removes from it, the policy is the
\* one of the time of the call and every is_authorized answer is as before.
C22_ListIsACopy ==
    call.op = "list" =>
        /\ auth.authorized_intents = call.policy
        /\ \A i \in CheckIntents, c \in CheckConfidences, m \in CheckMins :
              is_authorized(auth.authorized_intents, i, c, m)
                 = is_authorized(call.policy, i, c, m)

\* C22 witness: the caller removed an authorized intent from the list that
\* get_status returned, and the intent is still authorized
C22_Witness ==
    /\ call.op = "list" /\ call.via = "get_status" /\ call.mutated
    /\ \E i \in AuthIntents :
          /\ InList(i, call.policy)
          /\ ~InList(i, call.returned.items)
          /\ is_authorized(auth.authorized_intents, i, Scale, None)

\* C29: with add_authorized_intent and remove_authorized_intent called from
\* concurrent threads, in any interleaving, no intent is in the authorized
\* list more than once, so one later remove(i) leaves i unauthorized.
C29_NoDuplicateUnderRace ==
    call.op = "threads" =>
        \A i \in {"go", "stop"} :
            /\ Count(i, auth.authorized_intents) <= 1
            /\ ~InList(i, remove_authorized_intent(auth.authorized_intents, i))

StageOrder == <<"transcribe", "classify", "extract", "authorize", "map", "validate">>

IsPrefix(a, b) == Len(a) <= Len(b) /\ a = SubSeq(b, 1, Len(a))

\* C23: the stages of a request run in the order transcribe (audio only),
\* classify, extract, authorize, map, validate, each at most once; the
\* mapping runs, and a Command exists, only after the authorization of that
\* request returned true.
C23_StagesInOrder ==
    /\ req.kind = "audio" => IsPrefix(req.stages, StageOrder)
    /\ req.kind = "text" => IsPrefix(req.stages, Tail(StageOrder))
    /\ (InList("map", req.stages) \/ req.command # None) =>
          /\ req.authSeen = Some(TRUE)
          /\ req.conf >= req.minc
    /\ AuthorizationRefused =>
          /\ req.command = None
          /\ req.stages[Len(req.stages)] = "authorize"

\* C23 witness: an audio request that ran all six stages
C23_Witness ==
    /\ req.kind = "audio" /\ Returned /\ Result.status = "success"
    /\ req.stages = StageOrder

\* C24: a reload from unchanged sources leaves the intents table and the
\* template table as they were, and when it completes the tables are those
\* of a processor constructed from the sources and the authorized list is
\* the list of keys of the template table, whatever add and remove calls
\* came before.
C24_ReloadRestoresTables ==
    [][/\ (reloadPc = "idle" /\ reloadPc' = "commands" /\ intents_config.gen = srcCfg)
            => intents_config' = intents_config
       /\ (reloadPc = "commands" /\ reloadPc' = "nlu" /\ commands_config.gen = srcCfg)
            => commands_config' = commands_config
       /\ (reloadPc = "auth" /\ reloadPc' = "idle") =>
            /\ intents_config' = load_intents_config(srcCfg')
            /\ commands_config' = load_commands_config(srcCfg')
            /\ Len(intents_config'.table) = Len(Configs[srcCfg'].intents)
            /\ nlu'.intents = intents_config'.table
            /\ mapper'.commands = commands_config'.table
            /\ auth'.authorized_intents = Keys(commands_config'.table)]_vars

\* C24 witness: a reload has completed on a processor whose sources are as
\* at construction (the real engine in a mock processor shows the reload),
\* and the tables and the authorized list are those of construction
C24_Witness ==
    /\ use_mock /\ nlu.kind = "real" /\ reloadPc = "idle"
    /\ srcCfg = 1 /\ intents_config.gen = 1 /\ commands_config.gen = 1
    /\ intents_config = load_intents_config(1)
    /\ commands_config = load_commands_config(1)
    /\ auth = NewAuth(commands_config)

\* C25: the Command of a success result is built from a template and has
\* status "authorized"; the unknown-intent Command (command_type "error",
\* status "rejected") is never inside a success result.
C25_SuccessCarriesTemplateCommand ==
    (Returned /\ Result.status = "success") =>
        /\ HasKey(Configs[req.gens.map].commands, req.intent)
        /\ Result.command.status = "authorized"
        /\ Result.command.command_type # "error"

\* C27: every classification and extraction of a request runs on the mock
\* engine in a processor constructed with use_mock=True, and on the real
\* engine in one constructed with use_mock=False.
C27_EngineKindFollowsUseMock ==
    req.pc \in {"classify", "extract"} => (nlu.kind = "mock" <=> use_mock)

\* C30: no step of process_text or process_audio changes the intents table,
\* the classifier, the authorized list or the template table, the base
\* parameters of the mapped template included.
C30_RequestsLeaveSharedState ==
    [][req' # req =>
          UNCHANGED <<intents_config, commands_config, nlu, mapper, auth>>]_vars

\* C30 witness: a success whose Command has an entity laid over a base
\* parameter of its template, with the template as the configuration has it
C30_Witness ==
    /\ Returned /\ Result.status = "success"
    /\ req.gens.map = mapper.gen
    /\ HasKey(mapper.commands, req.intent)
    /\ LET base == Lookup(mapper.commands, req.intent).parameters
       IN  /\ \E k \in DOMAIN base \cap DOMAIN req.entities :
                 /\ base[k] # req.entities[k]
                 /\ Result.command.parameters[k] = req.entities[k]
           /\ base = Lookup(Configs[mapper.gen].commands, req.intent).parameters

\* C26: when the classifier returns "unknown", for any confidence, any
\* min_confidence and any template table, the request never ends with
\* status success: it is rejected at the authorization stage.
C26_UnknownNeverSucceeds ==
    (Done /\ InList("classify", req.stages) /\ req.intent = "unknown"
          /\ req.fault = "") =>
        /\ Returned
        /\ Result.status # "success"
        /\ Result.status = "rejected"
        /\ req.stages[Len(req.stages)] = "authorize"

\* what the caller gets from a request: the result, or the exception
Outcome(r) == [escaped |-> r.escaped, result |-> r.result]

\* C28: for an audio input whose transcription is a non-blank text t,
\* process_audio returns what process_text(t) returns with the same
\* configuration and min_confidence (the timestamp of the Command is the
\* same instant in both).
C28_AudioSameAsText ==
    (call.op = "process_audio" /\ Strip(call.input.text) # <<>>) =>
        Outcome(req) = Outcome(call.twin)

====
